---- MODULE Spec2Model ----
(***************************************************************************)
(* Model of EthService (src/src/eth/eth.service.ts): the block ingestion   *)
(* loop, per-transaction ledger updates, block rewards, the checkpoint     *)
(* row, cooperative shutdown, and process crash / restart.                 *)
(*                                                                         *)
(* Every awaited storage or chain call of the service is one step of the   *)
(* process; the code that runs synchronously after an await resumes is     *)
(* part of the step that completes the await.  The four tables are the     *)
(* durable state; everything else is lost when the process dies.           *)
(***************************************************************************)
EXTENDS Integers, Sequences, FiniteSets, TLC

VARIABLES
    \* durable store (the four repositories)
    lastProcessed,      \* LastProcessedBlockEntity table: blockchain -> blockNumber
    accounts,           \* AccountEntity table: address -> row
    journal,            \* TransactionEntity table: txHash -> row
    rewards,            \* BlockRewardEntity table: blockNumber -> row
    \* the running process
    pc,                 \* the await the process is suspended at, or "down"/"failed"/"stopped"
    isTerminating,      \* this._isTerminating
    currentProcess,     \* this._currentProcess: "undefined" | "pending" | "resolved" | "rejected"
    destroy,            \* onModuleDestroy: "none" | "waiting" | "returned"
    blockNumber,        \* pullBlocks' local blockNumber
    batchFrom,          \* height of blocks[0] of the batch in hand
    blocks,             \* the batch: blocks[i] is the height of the block the i-th
                        \* promise resolved with, 0 while it is outstanding
    idx,                \* 1-based position of the for-of loop in blocks
    txIdx,              \* 1-based position of processBlock's loop in block.transactions
    feesSum,            \* processBlock's local feesSum
    accFrom, accTo,     \* processTx's accounts.from / accounts.to snapshots
    txBase,             \* processTx's txBase once the receipt is resolved
    minerAcc,           \* processBlockReward's account snapshot
    blockRewardAmount,  \* processBlockReward's blockRewardAmount
    \* history (not program state)
    h0,                 \* checkpoint height at first start
    crashes,            \* process crashes so far
    throws,             \* transport errors thrown by transaction.wait() so far
    runFrom,            \* first height the current run asked for (0 before that)
    shutdowns,          \* shutdown requests so far
    applied,            \* txHash -> how often each arm's account update was written
    completed,          \* txHashes for which a processTx call ran to its return txBase
    mined,              \* height -> how often the miner's account update was written
    touched,            \* a ledger write happened since the last checkpoint write
    dropped,            \* some run returned with prefetched blocks left unprocessed
    runFault,           \* a transport error was injected into the current run
    \* a call of calcBlockReward on its own
    calcArgs,           \* the block and feesAmount of the call, None when there is none
    calcResult          \* what the call returned, None before it returns

store    == <<lastProcessed, accounts, journal, rewards>>
locals   == <<blockNumber, batchFrom, blocks, idx, txIdx, feesSum, accFrom, accTo, txBase,
              minerAcc, blockRewardAmount>>
service  == <<pc, isTerminating, currentProcess, destroy>>
history  == <<h0, crashes, throws, runFrom, shutdowns, applied, completed, mined,
              touched, dropped, runFault>>
call     == <<calcArgs, calcResult>>
vars     == <<store, locals, service, history, call>>

(***************************************************************************)
(* Bounds of the model.                                                    *)
(***************************************************************************)
Tip          == 12     \* highest block the chain source has
MaxFaults    == 2      \* crashes + transport errors per behaviour
MaxShutdowns == 1      \* shutdown requests per behaviour
MaxGasUsed   == 2      \* block.gasUsed of a calcBlockReward call on its own
MaxBaseFee   == 2      \* block.baseFeePerGas of such a call, when present
MaxFeesSum   == 10     \* feesAmount of such a call

(***************************************************************************)
(* Program constants.                                                      *)
(***************************************************************************)
batchSize     == 10
FirstEraLast  == 4369999
SecondEraFrom == 4370000
SecondEraLast == 7279999

Null == "null"     \* an absent string (undefined / null address)
None == << >>      \* an absent object or decimal string; also an empty table

(***************************************************************************)
(* bignumber.js values.  An arbitrary-precision decimal v is kept as the   *)
(* pair (e18, e0) with v = e18 * 10^18 + e0; within the bounds |e0| stays  *)
(* far below 10^18, so the pair is unique and + and - act componentwise.   *)
(* The decimal strings the entities store (toFixed / toString) are kept as *)
(* the value they denote: both print every digit of a finite value and     *)
(* new BigNumber(string) reads them back exactly.                          *)
(***************************************************************************)
\* an ethers BigNumber (integer) as the chain source returns it
EthersBN(n)  == [hex |-> n]
mul(a, b)    == [hex |-> a.hex * b.hex]
\* new BigNumber(x.toString()) of an ethers BigNumber x
BN(x)        == [e18 |-> 0, e0 |-> x.hex]
Zero         == [e18 |-> 0, e0 |-> 0]
Num(n)       == [e18 |-> 0, e0 |-> n]
plus(a, b)   == [e18 |-> a.e18 + b.e18, e0 |-> a.e0 + b.e0]
minus(a, b)  == [e18 |-> a.e18 - b.e18, e0 |-> a.e0 - b.e0]
shiftedBy18(a) == [e18 |-> a.e0, e0 |-> 0]

\* String.prototype.toLowerCase on the hex strings the chain source returns.
toLowerCase(s) ==
    CASE s = "0xA"  -> "0xa"
      [] s = "0xB"  -> "0xb"
      [] s = "0xM"  -> "0xm"
      [] s = "0xT1" -> "0xt1"
      [] s = "0xT2" -> "0xt2"
      [] s = "0xT3" -> "0xt3"
      [] s = "0xT4" -> "0xt4"
      [] s = "0xT5" -> "0xt5"
      [] OTHER      -> s

\* mutant: truthiness of a number, under which a zero balance is falsy
truthyAsNumber(s) == s # None /\ s # Zero

\* JavaScript truthiness of an optional decimal string: undefined and null
\* are falsy, every non-empty string ("0" included) is truthy.
truthy(s) == s # None

(***************************************************************************)
(* The chain source.  Blocks 1 and 2 carry the transactions, block 3 is    *)
(* mined by a transacting address, the rest are empty blocks of miner M.   *)
(* getBlockWithTransactions answers null above the tip.                    *)
(***************************************************************************)
Tx(number, hash, from, to, value, gasUsed, price, reverted) ==
    [blockNumber |-> number, hash |-> hash, from |-> from, to |-> to,
     value |-> EthersBN(value), gasUsed |-> EthersBN(gasUsed),
     effectiveGasPrice |-> EthersBN(price), reverted |-> reverted]

Block1Txs == << Tx(1, "0xT1", "0xA", "0xB", 100, 1, 2, FALSE),
                Tx(1, "0xT2", "0xA", "0xB", 50, 1, 3, TRUE) >>
Block2Txs == << Tx(2, "0xT3", "0xA", "0xa", 7, 1, 1, FALSE),
                Tx(2, "0xT4", "0xB", Null, 5, 2, 2, FALSE),
                Tx(2, "0xT5", Null, "0xB", 9, 1, 1, FALSE) >>

getBlockWithTransactions(h) ==
    IF h > Tip THEN None
    ELSE [number |-> h,
          miner |-> IF h = 3 THEN "0xB" ELSE "0xM",
          gasUsed |-> EthersBN(IF h = 1 THEN 2 ELSE IF h = 2 THEN 4 ELSE 0),
          baseFeePerGas |-> IF h = 1 THEN None ELSE EthersBN(1),
          transactions |-> IF h = 1 THEN Block1Txs
                           ELSE IF h = 2 THEN Block2Txs ELSE << >>]

Heights == 1..Tip
Hashes  == {toLowerCase(Block1Txs[i].hash) : i \in DOMAIN Block1Txs}
           \cup {toLowerCase(Block2Txs[i].hash) : i \in DOMAIN Block2Txs}
InitHeights == {0, 2}

(***************************************************************************)
(* Pure pieces of the service.                                             *)
(***************************************************************************)
\* the accountData literal of getOrCreateAccount
accountData(address) ==
    [address |-> address, balance |-> Zero,
     totalTxCount |-> 0, incomingTxCount |-> 0, outgoingTxCount |-> 0,
     totalFeesPaid |-> Zero, totalReceived |-> Zero, totalSent |-> Zero,
     totalMinedAmount |-> Zero, totalMinedBlocks |-> 0]

\* getOrCreateAccount: the row it returns, and the table it leaves
getOrCreateAccount(accts, address) ==
    IF address \in DOMAIN accts THEN accts[address] ELSE accountData(address)

getOrCreateAccountStore(accts, address) ==
    IF address \in DOMAIN accts THEN accts
    ELSE accts @@ (address :> accountData(address))

\* updateAccountStats: UPDATE ... WHERE address = account.address, all columns
updateAccountStats(accts, account) ==
    IF account.address \in DOMAIN accts
    THEN [accts EXCEPT ![account.address] = account]
    ELSE accts

\* mutant: only a successful journal entry counts as already processed
checkTxExistsSuccessful(jrnl, txHash) ==
    txHash \in DOMAIN jrnl /\ jrnl[txHash].success

\* checkTxExists: findOne by txHash
checkTxExists(jrnl, txHash) == txHash \in DOMAIN jrnl

\* the receipt transaction.wait() resolves with, or carries in the
\* 'transaction failed' error
receipt(transaction) ==
    [gasUsed |-> transaction.gasUsed,
     effectiveGasPrice |-> transaction.effectiveGasPrice]

\* calcFeesAmount: gasUsed.mul(effectiveGasPrice)
calcFeesAmount(txReceipt) == BN(mul(txReceipt.gasUsed, txReceipt.effectiveGasPrice))

\* calcBlockReward
\* mutant: the first era ends one block early
baseBlockRewardEndingEarly(number) ==
    IF number < FirstEraLast THEN Num(5)
    ELSE IF number >= SecondEraFrom /\ number <= SecondEraLast THEN Num(3)
    ELSE Num(2)

baseBlockReward(number) ==
    IF number <= FirstEraLast THEN Num(5)
    ELSE IF number >= SecondEraFrom /\ number <= SecondEraLast THEN Num(3)
    ELSE Num(2)

burnt(block) ==
    IF block.baseFeePerGas # None
    THEN BN(mul(block.gasUsed, block.baseFeePerGas))
    ELSE Zero

calcBlockReward(block, feesAmount) ==
    minus(plus(shiftedBy18(baseBlockReward(block.number)), feesAmount), burnt(block))

\* previous -> next balance of processTx, lines 200-209
fromNextBalance(prev, amount, fees) ==
    IF truthy(prev) THEN minus(minus(prev, amount), fees) ELSE None

\* mutant: an absent previous balance is taken as zero
toNextBalanceFromZero(prev, amount) ==
    plus(IF truthy(prev) THEN prev ELSE Zero, amount)

toNextBalance(prev, amount) ==
    IF truthy(prev) THEN plus(prev, amount) ELSE None

\* txBase as processTx has built it when it calls saveTx: `from` and `to`
\* are the snapshots accounts.from / accounts.to (None when the side is absent)
makeTxBase(transaction, from, to) ==
    LET fees   == calcFeesAmount(receipt(transaction))
        amount == BN(transaction.value)
        fprev  == IF from = None THEN None ELSE from.balance
        tprev  == IF to = None THEN None ELSE to.balance
    IN [txHash |-> toLowerCase(transaction.hash),
        blockNumber |-> transaction.blockNumber,
        from |-> IF transaction.from = Null THEN Null ELSE toLowerCase(transaction.from),
        to |-> IF transaction.to = Null THEN Null ELSE toLowerCase(transaction.to),
        success |-> ~transaction.reverted,
        amount |-> amount,
        feesAmount |-> fees,
        totalAmount |-> plus(fees, amount),
        fromPreviousBalance |-> fprev,
        toPreviousBalance |-> tprev,
        fromNextBalance |-> fromNextBalance(fprev, amount, fees),
        toNextBalance |-> toNextBalance(tprev, amount)]

\* the record processTx passes to updateAccountStats for the receiver
toArm(to, tx) ==
    [address |-> to.address,
     balance |-> tx.toNextBalance,
     totalTxCount |-> to.totalTxCount + 1,
     incomingTxCount |-> to.incomingTxCount + 1,
     outgoingTxCount |-> to.outgoingTxCount,
     totalFeesPaid |-> to.totalFeesPaid,
     totalReceived |-> plus(to.totalReceived, tx.amount),
     totalSent |-> to.totalSent,
     totalMinedAmount |-> to.totalMinedAmount,
     totalMinedBlocks |-> to.totalMinedBlocks]

\* mutant: the sender's update leaves totalTxCount as it was read
fromArmKeepingTotal(from, tx) ==
    [address |-> from.address,
     balance |-> tx.fromNextBalance,
     totalTxCount |-> from.totalTxCount,
     incomingTxCount |-> from.incomingTxCount,
     outgoingTxCount |-> from.outgoingTxCount + 1,
     totalFeesPaid |-> plus(from.totalFeesPaid, tx.feesAmount),
     totalReceived |-> from.totalReceived,
     totalSent |-> plus(from.totalSent, tx.amount),
     totalMinedAmount |-> from.totalMinedAmount,
     totalMinedBlocks |-> from.totalMinedBlocks]

\* the record processTx passes to updateAccountStats for the sender
fromArm(from, tx) ==
    [address |-> from.address,
     balance |-> tx.fromNextBalance,
     totalTxCount |-> from.totalTxCount + 1,
     incomingTxCount |-> from.incomingTxCount,
     outgoingTxCount |-> from.outgoingTxCount + 1,
     totalFeesPaid |-> plus(from.totalFeesPaid, tx.feesAmount),
     totalReceived |-> from.totalReceived,
     totalSent |-> plus(from.totalSent, tx.amount),
     totalMinedAmount |-> from.totalMinedAmount,
     totalMinedBlocks |-> from.totalMinedBlocks]

\* the record processBlockReward passes to updateAccountStats for the miner
minerArm(account, amount) ==
    [account EXCEPT
        !.totalMinedAmount = plus(account.totalMinedAmount, amount),
        !.totalMinedBlocks = account.totalMinedBlocks + 1,
        !.balance = plus(account.balance, amount)]

\* the row processBlockReward inserts
blockRewardData(block, amount) ==
    [blockNumber |-> block.number, account |-> toLowerCase(block.miner),
     amount |-> amount]

(***************************************************************************)
(* The process.                                                            *)
(***************************************************************************)
chain == "ETH"     \* this._blockchain

\* the stored checkpoint height, 0 while no row exists
checkpoint == IF chain \in DOMAIN lastProcessed THEN lastProcessed[chain] ELSE 0

\* the promises array as the for loop of lines 71-73 leaves it: all outstanding
outstanding == [i \in 1..batchSize |-> 0]

\* mutant: the results are collected in the order the fetches complete
resultInCompletionOrder(bl, i, h) ==
    LET k == CHOOSE k \in 1..batchSize : bl[k] = 0 /\ \A j \in 1..(k - 1) : bl[j] # 0
    IN [bl EXCEPT ![k] = h]

\* Promise.all keeps the value of the i-th promise at position i of its result
resultAt(bl, i, h) == [bl EXCEPT ![i] = h]

\* Promise.all resolves when every promise has
allResolved(bl) == \A k \in 1..batchSize : bl[k] # 0

\* the batch once the fetches from position i on have completed
RECURSIVE allArrive(_, _, _)
allArrive(bl, from, i) ==
    IF i > batchSize THEN bl
    ELSE allArrive(resultAt(bl, i, from + i - 1), from, i + 1)

block       == IF idx \in DOMAIN blocks THEN getBlockWithTransactions(blocks[idx])
               ELSE None
transaction == block.transactions[txIdx]

Running == pc \notin {"down", "failed", "stopped"}

InitService ==
    /\ lastProcessed \in {None} \cup {chain :> h : h \in InitHeights}
    /\ accounts = None
    /\ journal = None
    /\ rewards = None
    /\ pc = "onModuleInit"
    /\ isTerminating = FALSE
    /\ currentProcess = "undefined"
    /\ destroy = "none"
    /\ blockNumber = 0
    /\ batchFrom = 0
    /\ blocks = None
    /\ idx = 0
    /\ txIdx = 0
    /\ feesSum = Zero
    /\ accFrom = None
    /\ accTo = None
    /\ txBase = None
    /\ minerAcc = None
    /\ blockRewardAmount = None
    /\ h0 = checkpoint
    /\ crashes = 0
    /\ throws = 0
    /\ runFrom = 0
    /\ shutdowns = 0
    /\ applied = [h \in Hashes |-> [to |-> 0, from |-> 0]]
    /\ completed = {}
    /\ mined = [h \in Heights |-> 0]
    /\ touched = FALSE
    /\ dropped = FALSE
    /\ runFault = FALSE

\* the service after construction on the store as found; no call of
\* calcBlockReward on its own
Init ==
    /\ InitService
    /\ calcArgs = None
    /\ calcResult = None

\* onModuleDestroy's `await this._currentProcess` resumes when the promise settles
settled(d) == IF d = "waiting" THEN "returned" ELSE d

\* processBlock(b) up to its first await: the first processTx's checkTxExists,
\* or processBlockReward's insert when the block has no transactions
beginBlock(b) ==
    /\ feesSum' = Zero
    /\ IF Len(b.transactions) > 0
       THEN /\ pc' = "checkTxExists"
            /\ txIdx' = 1
            /\ blockRewardAmount' = None
       ELSE /\ pc' = "insertBlockReward"
            /\ txIdx' = 0
            /\ blockRewardAmount' = calcBlockReward(b, Zero)

\* mutant: the loop head never looks at the flag
returnRequestedNever == FALSE

\* pullBlocks line 77: `if (this._isTerminating) return;`
returnRequested == isTerminating

\* pullBlocks lines 68-90 from the head of the for-of loop at position i of the
\* batch bl that starts at height from; bn is blockNumber, cp the settled value
\* of _currentProcess.  Past the last position the next batch is requested.
loopHead(from, bl, i, bn, cp) ==
    IF i > batchSize
    THEN /\ pc' = "fetch"
         /\ batchFrom' = bn
         /\ blocks' = outstanding
         /\ idx' = 0
         /\ currentProcess' = cp
         /\ UNCHANGED <<txIdx, feesSum, blockRewardAmount, dropped>>
    ELSE IF returnRequested
    THEN /\ pc' = "stopped"
         /\ batchFrom' = from
         /\ blocks' = bl
         /\ idx' = i
         /\ currentProcess' = cp
         /\ dropped' = (dropped \/ from + i - 1 <= Tip)
         /\ UNCHANGED <<txIdx, feesSum, blockRewardAmount>>
    ELSE IF getBlockWithTransactions(bl[i]) = None
    THEN \* block.transactions of null: TypeError, pullBlocks rejects
         /\ pc' = "failed"
         /\ batchFrom' = from
         /\ blocks' = bl
         /\ idx' = i
         /\ currentProcess' = cp
         /\ UNCHANGED <<txIdx, feesSum, blockRewardAmount, dropped>>
    ELSE /\ batchFrom' = from
         /\ blocks' = bl
         /\ idx' = i
         /\ currentProcess' = "pending"
         /\ beginBlock(getBlockWithTransactions(bl[i]))
         /\ UNCHANGED dropped

\* processBlock after processTx returned for position txIdx; fs is feesSum
afterTx(fs) ==
    /\ feesSum' = fs
    /\ accFrom' = None
    /\ accTo' = None
    /\ txBase' = None
    /\ IF txIdx < Len(block.transactions)
       THEN /\ pc' = "checkTxExists"
            /\ txIdx' = txIdx + 1
            /\ blockRewardAmount' = None
       ELSE /\ pc' = "insertBlockReward"
            /\ txIdx' = txIdx
            /\ blockRewardAmount' = calcBlockReward(block, fs)

\* processTx returns txBase: the call is complete and its fee is accumulated
returnTx ==
    /\ afterTx(plus(feesSum, txBase.feesAmount))
    /\ completed' = completed \cup {txBase.txHash}

\* onModuleInit: getBlockNumber resolves, pullBlocks is called and suspends
\* in getLastProcessedBlockNumber's findOne
OnModuleInit ==
    /\ pc = "onModuleInit"
    /\ pc' = "getLastProcessedBlockNumber"
    /\ UNCHANGED <<store, locals, isTerminating, currentProcess, destroy, history, call>>

\* getLastProcessedBlockNumber (row created at 0 when absent), then the first
\* batch is requested
PullBlocksResume ==
    /\ pc = "getLastProcessedBlockNumber"
    /\ lastProcessed' = IF chain \in DOMAIN lastProcessed THEN lastProcessed
                        ELSE (chain :> 0)
    /\ blockNumber' = checkpoint + 1
    /\ batchFrom' = checkpoint + 1
    /\ blocks' = outstanding
    /\ idx' = 0
    /\ pc' = "fetch"
    /\ runFrom' = checkpoint + 1
    /\ UNCHANGED <<accounts, journal, rewards, txIdx, feesSum, accFrom, accTo, txBase,
                   minerAcc, blockRewardAmount, isTerminating, currentProcess, destroy,
                   call, h0, crashes, throws, shutdowns, applied, completed, mined, touched,
                   dropped, runFault>>

\* the fetches of the batch complete with no other step of the service in
\* between; Promise.all resolves and the loop takes its first block
PullBlocksBatch ==
    /\ pc = "fetch"
    /\ loopHead(batchFrom, allArrive(blocks, batchFrom, 1), 1, blockNumber, currentProcess)
    /\ UNCHANGED <<store, blockNumber, accFrom, accTo, txBase, minerAcc,
                   isTerminating, destroy,
                   call, h0, crashes, throws, runFrom, shutdowns, applied, completed, mined, touched, runFault>>

\* the fetch of the i-th block of the batch completes on its own; when it is
\* the last one outstanding Promise.all resolves and the loop takes its first
\* block
FetchArrives(i) ==
    /\ pc = "fetch"
    /\ \A k \in 1..batchSize : blocks[k] # batchFrom + i - 1
    /\ LET bl == resultAt(blocks, i, batchFrom + i - 1)
       IN IF allResolved(bl)
          THEN loopHead(batchFrom, bl, 1, blockNumber, currentProcess)
          ELSE /\ blocks' = bl
               /\ UNCHANGED <<pc, batchFrom, idx, currentProcess, txIdx, feesSum,
                              blockRewardAmount, dropped>>
    /\ UNCHANGED <<store, blockNumber, accFrom, accTo, txBase, minerAcc,
                   isTerminating, destroy,
                   call, h0, crashes, throws, runFrom, shutdowns, applied, completed, mined, touched, runFault>>

\* processTx lines 156-176 up to the next await
ProcessTxExists ==
    /\ pc = "checkTxExists"
    /\ IF checkTxExists(journal, toLowerCase(transaction.hash))
       THEN /\ afterTx(feesSum)
       ELSE /\ pc' = IF transaction.from # Null THEN "getFrom"
                     ELSE IF transaction.to # Null THEN "getTo" ELSE "wait"
            /\ UNCHANGED <<txIdx, feesSum, accFrom, accTo, txBase, blockRewardAmount>>
    /\ UNCHANGED <<store, blockNumber, batchFrom, blocks, idx, minerAcc,
                   isTerminating, currentProcess, destroy, history, call>>

ProcessTxFrom ==
    /\ pc = "getFrom"
    /\ accFrom' = getOrCreateAccount(accounts, toLowerCase(transaction.from))
    /\ accounts' = getOrCreateAccountStore(accounts, toLowerCase(transaction.from))
    /\ touched' = (touched \/ accounts' # accounts)
    /\ pc' = IF transaction.to # Null THEN "getTo" ELSE "wait"
    /\ UNCHANGED <<lastProcessed, journal, rewards, blockNumber, batchFrom, blocks, idx, txIdx,
                   feesSum, accTo, txBase, minerAcc, blockRewardAmount,
                   isTerminating, currentProcess, destroy,
                   call, h0, crashes, throws, runFrom, shutdowns, applied, completed, mined, dropped, runFault>>

ProcessTxTo ==
    /\ pc = "getTo"
    /\ accTo' = getOrCreateAccount(accounts, toLowerCase(transaction.to))
    /\ accounts' = getOrCreateAccountStore(accounts, toLowerCase(transaction.to))
    /\ touched' = (touched \/ accounts' # accounts)
    /\ pc' = "wait"
    /\ UNCHANGED <<lastProcessed, journal, rewards, blockNumber, batchFrom, blocks, idx, txIdx,
                   feesSum, accFrom, txBase, minerAcc, blockRewardAmount,
                   isTerminating, currentProcess, destroy,
                   call, h0, crashes, throws, runFrom, shutdowns, applied, completed, mined, dropped, runFault>>

\* transaction.wait() resolves, or rejects with 'transaction failed': txBase is
\* completed (lines 178-209) and saveTx is called
ProcessTxWait ==
    /\ pc = "wait"
    /\ txBase' = makeTxBase(transaction, accFrom, accTo)
    /\ pc' = "saveTx"
    /\ UNCHANGED <<store, blockNumber, batchFrom, blocks, idx, txIdx, feesSum, accFrom, accTo,
                   minerAcc, blockRewardAmount, isTerminating, currentProcess,
                   destroy, history, call>>

\* mutant: the catch takes every error for the on-chain failure signal
ProcessTxThrowTakenAsFailed ==
    /\ pc = "wait"
    /\ crashes + throws < MaxFaults
    /\ throws' = throws + 1
    /\ runFault' = TRUE
    /\ txBase' = [makeTxBase(transaction, accFrom, accTo) EXCEPT !.success = FALSE]
    /\ pc' = "saveTx"
    /\ UNCHANGED <<store, blockNumber, batchFrom, blocks, idx, txIdx, feesSum, accFrom, accTo,
                   minerAcc, blockRewardAmount, isTerminating, currentProcess, destroy,
                   call, h0, crashes, runFrom, shutdowns, applied, completed, mined, touched,
                   dropped>>

\* transaction.wait() rejects with any other error: rethrown (line 194),
\* _currentProcess rejects and pullBlocks with it
ProcessTxThrow ==
    /\ pc = "wait"
    /\ crashes + throws < MaxFaults
    /\ throws' = throws + 1
    /\ runFault' = TRUE
    /\ pc' = "failed"
    /\ currentProcess' = "rejected"
    /\ destroy' = settled(destroy)
    /\ accFrom' = None
    /\ accTo' = None
    /\ UNCHANGED <<store, blockNumber, batchFrom, blocks, idx, txIdx, feesSum, txBase, minerAcc,
                   blockRewardAmount, isTerminating,
                   call, h0, crashes, runFrom, shutdowns, applied, completed, mined, touched,
                   dropped>>

\* saveTx: the journal insert; txHash is the primary key, so a second insert
\* of a hash is refused by the store and the error propagates
ProcessTxSave ==
    /\ pc = "saveTx"
    /\ IF txBase.txHash \in DOMAIN journal
       THEN /\ pc' = "failed"
            /\ currentProcess' = "rejected"
            /\ destroy' = settled(destroy)
            /\ UNCHANGED <<journal, touched, txIdx, feesSum, accFrom, accTo, txBase,
                           blockRewardAmount, completed>>
       ELSE /\ journal' = journal @@ (txBase.txHash :> txBase)
            /\ touched' = TRUE
            /\ UNCHANGED <<currentProcess, destroy>>
            /\ IF accTo # None
               THEN /\ pc' = "updateTo"
                    /\ UNCHANGED <<txIdx, feesSum, accFrom, accTo, txBase,
                                   blockRewardAmount, completed>>
               ELSE IF accFrom # None
               THEN /\ pc' = "updateFrom"
                    /\ UNCHANGED <<txIdx, feesSum, accFrom, accTo, txBase,
                                   blockRewardAmount, completed>>
               ELSE returnTx
    /\ UNCHANGED <<lastProcessed, accounts, rewards, blockNumber, batchFrom, blocks, idx,
                   minerAcc, isTerminating,
                   call, h0, crashes, throws, runFrom, shutdowns, applied, mined, dropped, runFault>>

\* updateAccountStats for the receiver (lines 212-227)
ProcessTxUpdateTo ==
    /\ pc = "updateTo"
    /\ accounts' = updateAccountStats(accounts, toArm(accTo, txBase))
    /\ applied' = [applied EXCEPT ![txBase.txHash].to = @ + 1]
    /\ touched' = TRUE
    /\ IF accFrom # None
       THEN /\ pc' = "updateFrom"
            /\ UNCHANGED <<txIdx, feesSum, accFrom, accTo, txBase, blockRewardAmount,
                           completed>>
       ELSE returnTx
    /\ UNCHANGED <<lastProcessed, journal, rewards, blockNumber, batchFrom, blocks, idx,
                   minerAcc, isTerminating, currentProcess, destroy,
                   call, h0, crashes, throws, runFrom, shutdowns, mined, dropped, runFault>>

\* updateAccountStats for the sender (lines 228-245), then return txBase
ProcessTxUpdateFrom ==
    /\ pc = "updateFrom"
    /\ accounts' = updateAccountStats(accounts, fromArm(accFrom, txBase))
    /\ applied' = [applied EXCEPT ![txBase.txHash].from = @ + 1]
    /\ touched' = TRUE
    /\ returnTx
    /\ UNCHANGED <<lastProcessed, journal, rewards, blockNumber, batchFrom, blocks, idx,
                   minerAcc, isTerminating, currentProcess, destroy,
                   call, h0, crashes, throws, runFrom, shutdowns, mined, dropped, runFault>>

\* mutant: a refused insert is swallowed and the block is taken as rewarded
ProcessBlockRewardInsertIgnoringConflict ==
    /\ pc = "insertBlockReward"
    /\ IF block.number \in DOMAIN rewards
       THEN /\ pc' = "setLastProcessedBlockNumber"
            /\ UNCHANGED <<rewards, touched>>
       ELSE /\ rewards' = rewards @@
                    (block.number :> blockRewardData(block, blockRewardAmount))
            /\ touched' = TRUE
            /\ pc' = "getMiner"
    /\ UNCHANGED <<lastProcessed, accounts, journal, locals, isTerminating,
                   currentProcess, destroy,
                   call, h0, crashes, throws, runFrom, shutdowns, applied, completed, mined,
                   dropped, runFault>>

\* processBlockReward's insert; blockNumber is the primary key of
\* BlockRewardEntity, so a second insert for a height is refused by the store
\* and the error propagates out of processBlock
ProcessBlockRewardInsert ==
    /\ pc = "insertBlockReward"
    /\ IF block.number \in DOMAIN rewards
       THEN /\ pc' = "failed"
            /\ currentProcess' = "rejected"
            /\ destroy' = settled(destroy)
            /\ UNCHANGED <<rewards, touched>>
       ELSE /\ rewards' = rewards @@
                    (block.number :> blockRewardData(block, blockRewardAmount))
            /\ touched' = TRUE
            /\ pc' = "getMiner"
            /\ UNCHANGED <<currentProcess, destroy>>
    /\ UNCHANGED <<lastProcessed, accounts, journal, locals, isTerminating,
                   call, h0, crashes, throws, runFrom, shutdowns, applied, completed, mined, dropped, runFault>>

\* processBlockReward's getOrCreateAccount(miner)
ProcessBlockRewardAccount ==
    /\ pc = "getMiner"
    /\ minerAcc' = getOrCreateAccount(accounts, toLowerCase(block.miner))
    /\ accounts' = getOrCreateAccountStore(accounts, toLowerCase(block.miner))
    /\ touched' = TRUE
    /\ pc' = "updateMiner"
    /\ UNCHANGED <<lastProcessed, journal, rewards, blockNumber, batchFrom, blocks, idx, txIdx,
                   feesSum, accFrom, accTo, txBase, blockRewardAmount,
                   isTerminating, currentProcess, destroy,
                   call, h0, crashes, throws, runFrom, shutdowns, applied, completed, mined, dropped, runFault>>

\* processBlockReward's updateAccountStats; processBlock returns and
\* setLastProcessedBlockNumber is called
ProcessBlockRewardUpdate ==
    /\ pc = "updateMiner"
    /\ accounts' = updateAccountStats(accounts, minerArm(minerAcc, blockRewardAmount))
    /\ mined' = [mined EXCEPT ![block.number] = @ + 1]
    /\ touched' = TRUE
    /\ pc' = "setLastProcessedBlockNumber"
    /\ UNCHANGED <<lastProcessed, journal, rewards, locals,
                   isTerminating, currentProcess, destroy,
                   call, h0, crashes, throws, runFrom, shutdowns, applied, completed, dropped, runFault>>

\* mutant: the height is stored after the increment instead of before it
heightToStoreAfterIncrement == blockNumber + 1

\* the height setLastProcessedBlockNumber is called with (line 88)
heightToStore == blockNumber

\* setLastProcessedBlockNumber's update; _currentProcess resolves, pullBlocks
\* resumes (blockNumber++) and re-enters the loop before onModuleDestroy's
\* await resumes
SetLastProcessedBlockNumber ==
    /\ pc = "setLastProcessedBlockNumber"
    /\ lastProcessed' = IF chain \in DOMAIN lastProcessed
                        THEN [lastProcessed EXCEPT ![chain] = heightToStore]
                        ELSE lastProcessed
    /\ touched' = FALSE
    /\ blockNumber' = blockNumber + 1
    /\ minerAcc' = None
    /\ loopHead(batchFrom, blocks, idx + 1, blockNumber + 1, "resolved")
    /\ destroy' = settled(destroy)
    /\ UNCHANGED <<accounts, journal, rewards, accFrom, accTo, txBase, isTerminating,
                   call, h0, crashes, throws, runFrom, shutdowns, applied, completed, mined, runFault>>

\* onModuleDestroy: sets the flag and awaits _currentProcess, which resumes at
\* once unless a block's promise is pending
OnModuleDestroy ==
    /\ Running
    /\ destroy = "none"
    /\ shutdowns < MaxShutdowns
    /\ shutdowns' = shutdowns + 1
    /\ isTerminating' = TRUE
    /\ destroy' = IF currentProcess = "pending" THEN "waiting" ELSE "returned"
    /\ UNCHANGED <<store, locals, pc, currentProcess,
                   call, h0, crashes, throws, runFrom, applied, completed, mined, touched, dropped, runFault>>

\* what no process has: the fields and locals of a process not yet started
fresh ==
    /\ isTerminating' = FALSE
    /\ currentProcess' = "undefined"
    /\ destroy' = "none"
    /\ blockNumber' = 0
    /\ batchFrom' = 0
    /\ blocks' = None
    /\ idx' = 0
    /\ txIdx' = 0
    /\ feesSum' = Zero
    /\ accFrom' = None
    /\ accTo' = None
    /\ txBase' = None
    /\ minerAcc' = None
    /\ blockRewardAmount' = None

\* the process dies between two awaits; only the store survives
Crash ==
    /\ Running
    /\ crashes + throws < MaxFaults
    /\ crashes' = crashes + 1
    /\ pc' = "down"
    /\ runFrom' = 0
    /\ fresh
    /\ UNCHANGED <<store, call, h0, throws, shutdowns, applied, completed, mined, touched,
                   dropped, runFault>>

\* the supervisor starts a new process on the same store
Restart ==
    /\ ~Running
    /\ pc' = "onModuleInit"
    /\ fresh
    /\ runFault' = FALSE
    /\ runFrom' = 0
    /\ UNCHANGED <<store, call, h0, crashes, throws, shutdowns, applied, completed, mined,
                   touched, dropped>>

\* the steps of a process whose store and chain source answer
Step ==
    \/ OnModuleInit
    \/ PullBlocksResume
    \/ PullBlocksBatch
    \/ ProcessTxExists
    \/ ProcessTxFrom
    \/ ProcessTxTo
    \/ ProcessTxWait
    \/ ProcessTxSave
    \/ ProcessTxUpdateTo
    \/ ProcessTxUpdateFrom
    \/ ProcessBlockRewardInsert
    \/ ProcessBlockRewardAccount
    \/ ProcessBlockRewardUpdate
    \/ SetLastProcessedBlockNumber

Next ==
    \/ OnModuleInit
    \/ PullBlocksResume
    \/ PullBlocksBatch
    \/ ProcessTxExists
    \/ ProcessTxFrom
    \/ ProcessTxTo
    \/ ProcessTxWait
    \/ ProcessTxThrow
    \/ ProcessTxSave
    \/ ProcessTxUpdateTo
    \/ ProcessTxUpdateFrom
    \/ ProcessBlockRewardInsert
    \/ ProcessBlockRewardAccount
    \/ ProcessBlockRewardUpdate
    \/ SetLastProcessedBlockNumber
    \/ OnModuleDestroy
    \/ Crash
    \/ Restart

Spec == Init /\ [][Next]_vars

\* the event loop runs every continuation whose await has completed, and the
\* supervisor restarts a process that has ended
FairSpec == Spec /\ WF_vars(Step) /\ WF_vars(Restart)

\* the runs in which every fetch and every block's processing completes: no
\* process death and no transport error, shutdown requests and new processes
\* as before
NextCompleting ==
    \/ Step
    \/ OnModuleDestroy
    \/ Restart

CompletingSpec == Init /\ [][NextCompleting]_vars /\ WF_vars(Step)

\* calcBlockReward called on its own: the heights around the era thresholds,
\* gas used, an absent or present base fee, and a fee sum
CalcHeights == {1, FirstEraLast - 1, FirstEraLast, SecondEraFrom, SecondEraFrom + 1,
                SecondEraLast - 1, SecondEraLast, SecondEraLast + 1, SecondEraLast + 2}

CalcInputs ==
    {[block |-> [number |-> h, miner |-> "0xM", gasUsed |-> EthersBN(g),
                 baseFeePerGas |-> b, transactions |-> << >>],
      feesAmount |-> Num(f)] :
        h \in CalcHeights, g \in 0..MaxGasUsed,
        b \in {None} \cup {EthersBN(x) : x \in 0..MaxBaseFee}, f \in 0..MaxFeesSum}

CalcInit ==
    /\ InitService
    /\ lastProcessed = None
    /\ calcArgs \in CalcInputs
    /\ calcResult = None

\* the call returns
CalcBlockReward ==
    /\ calcArgs # None
    /\ calcResult = None
    /\ calcResult' = calcBlockReward(calcArgs.block, calcArgs.feesAmount)
    /\ UNCHANGED <<store, locals, service, history, calcArgs>>

NextCalc == CalcBlockReward

CalcSpec == CalcInit /\ [][NextCalc]_vars

\* the service with the ten fetches of a batch completing one by one, in any
\* order
NextAnyFetchOrder ==
    \/ OnModuleInit
    \/ PullBlocksResume
    \/ \E i \in 1..batchSize : FetchArrives(i)
    \/ ProcessTxExists
    \/ ProcessTxFrom
    \/ ProcessTxTo
    \/ ProcessTxWait
    \/ ProcessTxSave
    \/ ProcessTxUpdateTo
    \/ ProcessTxUpdateFrom
    \/ ProcessBlockRewardInsert
    \/ ProcessBlockRewardAccount
    \/ ProcessBlockRewardUpdate
    \/ SetLastProcessedBlockNumber

AnyFetchOrderSpec == Init /\ [][NextAnyFetchOrder]_vars

(***************************************************************************)
(* Properties.                                                             *)
(***************************************************************************)
\* a block is in flight: processBlock or setLastProcessedBlockNumber is running
InFlight == pc \in {"checkTxExists", "getFrom", "getTo", "wait", "saveTx", "updateTo",
                    "updateFrom", "insertBlockReward", "getMiner", "updateMiner",
                    "setLastProcessedBlockNumber"}

\* C1: the stored checkpoint height never decreases and every write raises it
\* by exactly one; the block in flight (and the height that will be stored for
\* it) is always the stored height + 1, so a run starts at its resume height
\* + 1 and no height is skipped, across batches, shutdowns and restarts.
C1_CheckpointStepsByOne ==
    /\ [](checkpoint >= h0)
    /\ [](InFlight => /\ block.number = checkpoint + 1
                      /\ blockNumber = checkpoint + 1
                      /\ runFrom <= blockNumber)
    /\ [](pc = "fetch" => batchFrom = checkpoint + 1 /\ blockNumber = checkpoint + 1)
    /\ [][checkpoint' = checkpoint \/ checkpoint' = checkpoint + 1]_vars

\* C1 witness: a run that was resumed after a shutdown had discarded prefetched
\* blocks has worked through more than one batch up to the chain's tip
C1_Witness ==
    /\ dropped
    /\ runFrom > 0
    /\ checkpoint - runFrom >= batchSize
    /\ checkpoint = Tip

\* C2: every block above the initial height and up to the stored checkpoint
\* is fully applied: all its transactions are journaled, its BlockReward row
\* exists and its miner's account update was written.
C2_CheckpointCoversAppliedBlocks ==
    \A b \in Heights :
        (h0 < b /\ b <= checkpoint) =>
            /\ \A i \in DOMAIN getBlockWithTransactions(b).transactions :
                   toLowerCase(getBlockWithTransactions(b).transactions[i].hash)
                       \in DOMAIN journal
            /\ b \in DOMAIN rewards
            /\ mined[b] >= 1

\* C2 witness: the checkpoint covers both transaction-carrying blocks in a
\* history in which processBlock failed and the block was processed again
C2_Witness ==
    /\ h0 = 0
    /\ checkpoint >= 2
    /\ throws >= 1

\* the sides of a journaled transaction that have an account
armsOf(T) == [to |-> IF T.to = Null THEN 0 ELSE 1, from |-> IF T.from = Null THEN 0 ELSE 1]

\* C3: a processTx call for a hash that already has a journal entry returns
\* nothing (no fee is accumulated, the next transaction or the reward follows)
\* and leaves the journal and every account row as they were; no insert of a
\* journaled hash is ever attempted and no arm of a transaction is written
\* twice, and once a processTx call for a hash has run to its end every later
\* call leaves each of its arms written exactly once.
C3_ProcessTxIdempotent ==
    /\ [](pc = "saveTx" => txBase.txHash \notin DOMAIN journal)
    /\ [](\A h \in Hashes :
            /\ applied[h].to <= 1 /\ applied[h].from <= 1
            /\ h \in completed => /\ h \in DOMAIN journal
                                  /\ applied[h] = armsOf(journal[h]))
    /\ [][(ProcessTxExists /\ toLowerCase(transaction.hash) \in DOMAIN journal) =>
            /\ journal' = journal
            /\ accounts' = accounts
            /\ applied' = applied
            /\ feesSum' = feesSum
            /\ accFrom' = None /\ accTo' = None /\ txBase' = None
            /\ \/ pc' = "checkTxExists" /\ txIdx' = txIdx + 1
               \/ pc' = "insertBlockReward" /\ txIdx = Len(block.transactions)]_vars

\* C3 witness: processTx is entered again for a hash whose earlier call had
\* run to its end, and both arms of that transaction are in the ledger once
C3_Witness ==
    /\ pc = "checkTxExists"
    /\ toLowerCase(transaction.hash) \in completed
    /\ applied[toLowerCase(transaction.hash)] = [to |-> 1, from |-> 1]
    /\ accounts["0xb"].incomingTxCount = 1

(***************************************************************************)
(* The run without crashes, errors or shutdowns, as a function of the      *)
(* chain: the same pieces of the service composed in program order.        *)
(***************************************************************************)
\* processTx on the tables db = [accounts, journal, feesSum]
runProcessTx(db, t) ==
    IF checkTxExists(db.journal, toLowerCase(t.hash)) THEN db
    ELSE LET a1   == IF t.from # Null
                     THEN getOrCreateAccountStore(db.accounts, toLowerCase(t.from))
                     ELSE db.accounts
             from == IF t.from # Null THEN a1[toLowerCase(t.from)] ELSE None
             a2   == IF t.to # Null
                     THEN getOrCreateAccountStore(a1, toLowerCase(t.to))
                     ELSE a1
             to   == IF t.to # Null THEN a2[toLowerCase(t.to)] ELSE None
             T    == makeTxBase(t, from, to)
             a3   == IF to # None THEN updateAccountStats(a2, toArm(to, T)) ELSE a2
             a4   == IF from # None THEN updateAccountStats(a3, fromArm(from, T)) ELSE a3
         IN [accounts |-> a4,
             journal |-> db.journal @@ (T.txHash :> T),
             feesSum |-> plus(db.feesSum, T.feesAmount)]

RECURSIVE runTransactions(_, _, _)
runTransactions(db, txs, i) ==
    IF i > Len(txs) THEN db
    ELSE runTransactions(runProcessTx(db, txs[i]), txs, i + 1)

\* processBlock on the tables db = [accounts, journal]
runProcessBlock(db, b) ==
    LET d      == runTransactions([accounts |-> db.accounts, journal |-> db.journal,
                                   feesSum |-> Zero], b.transactions, 1)
        amount == calcBlockReward(b, d.feesSum)
        a1     == getOrCreateAccountStore(d.accounts, toLowerCase(b.miner))
        a2     == updateAccountStats(a1, minerArm(a1[toLowerCase(b.miner)], amount))
    IN [accounts |-> a2, journal |-> d.journal]

\* the tables after blocks from+1 .. to have been processed on an empty store
RECURSIVE runBlocks(_, _)
runBlocks(from, to) ==
    IF to <= from THEN [accounts |-> None, journal |-> None]
    ELSE runProcessBlock(runBlocks(from, to - 1), getBlockWithTransactions(to))

crashFreeAccounts == [s \in InitHeights |-> [h \in s..Tip |-> runBlocks(s, h).accounts]]

\* the ledger record of an account row
ledgerRecord(row) ==
    [balance |-> row.balance, totalTxCount |-> row.totalTxCount,
     incomingTxCount |-> row.incomingTxCount, outgoingTxCount |-> row.outgoingTxCount,
     totalFeesPaid |-> row.totalFeesPaid, totalReceived |-> row.totalReceived,
     totalSent |-> row.totalSent]

ledger(accts) == [a \in DOMAIN accts |-> ledgerRecord(accts[a])]

\* C4 (as claimed): whenever the checkpoint stands at H with nothing of block
\* H+1 written yet, in a history whose only faults are process crashes, every
\* account's ledger record equals the one of the crash-free run over the same
\* blocks.
C4_CrashRestartEquivalence ==
    (~touched /\ throws = 0) =>
        ledger(accounts) = ledger(crashFreeAccounts[h0][checkpoint])

\* the same comparison in histories without any crash or error
C4_FaultFreeAgrees ==
    (~touched /\ throws = 0 /\ crashes = 0) =>
        ledger(accounts) = ledger(crashFreeAccounts[h0][checkpoint])

\* C5 (as claimed): whenever a process has died with block H not yet
\* checkpointed, the restarted process eventually advances the checkpoint to H.
C5_RestartCompletesBlock ==
    \A H \in Heights :
        (pc \in {"down", "failed"} /\ h0 < H /\ checkpoint < H) ~> (checkpoint >= H)

\* the block whose processing the current run gave up on without any
\* transport error: the store refused one of its inserts
refusedAt(H) == pc = "failed" /\ ~runFault /\ blockNumber = H

\* C6 (as claimed): in a history with a crash, once the reprocessing of a
\* transaction-carrying block H has ended (the checkpoint reached H, or the run
\* ended on H by itself), all of H's transactions are journaled, none of their
\* arms was written twice, H has its BlockReward row and the miner's update
\* for H was written exactly once.
C6_ReprocessedBlockRewardedOnce ==
    \A H \in Heights :
        (/\ crashes >= 1
         /\ h0 < H
         /\ Len(getBlockWithTransactions(H).transactions) >= 1
         /\ (checkpoint >= H \/ refusedAt(H))) =>
            /\ \A i \in DOMAIN getBlockWithTransactions(H).transactions :
                 LET h == toLowerCase(getBlockWithTransactions(H).transactions[i].hash)
                 IN h \in DOMAIN journal /\ applied[h].to <= 1 /\ applied[h].from <= 1
            /\ H \in DOMAIN rewards
            /\ mined[H] = 1

\* the same with the end of reprocessing read as the checkpoint reaching H
C6_CheckpointedBlockRewardedOnce ==
    \A H \in Heights :
        (crashes >= 1 /\ h0 < H /\ checkpoint >= H) =>
            /\ \A i \in DOMAIN getBlockWithTransactions(H).transactions :
                 LET h == toLowerCase(getBlockWithTransactions(H).transactions[i].hash)
                 IN h \in DOMAIN journal /\ applied[h].to <= 1 /\ applied[h].from <= 1
            /\ H \in DOMAIN rewards
            /\ mined[H] = 1

\* sum of calcFeesAmount over transactions i.. of a block
RECURSIVE feesFrom(_, _)
feesFrom(txs, i) ==
    IF i > Len(txs) THEN Zero
    ELSE plus(calcFeesAmount(receipt(txs[i])), feesFrom(txs, i + 1))

\* C7 (as claimed): every BlockReward row holds
\* baseReward(H) + (fees of all transactions of H) - burnt(H).
C7_RewardCountsAllFees ==
    \A H \in DOMAIN rewards :
        rewards[H].amount =
            minus(plus(shiftedBy18(baseBlockReward(H)),
                       feesFrom(getBlockWithTransactions(H).transactions, 1)),
                  burnt(getBlockWithTransactions(H)))

\* C8: every journal entry's previous balances are the balances the sender's
\* and receiver's rows held when the entry was inserted (no row has been
\* written by this transaction yet), fromNextBalance = fromPreviousBalance -
\* amount - feesAmount, toNextBalance = toPreviousBalance + amount and
\* totalAmount = amount + feesAmount, for zero and negative balances alike.
C8_JournalBalances ==
    /\ [](\A h \in DOMAIN journal :
            LET T == journal[h] IN
            /\ T.totalAmount = plus(T.amount, T.feesAmount)
            /\ T.from # Null =>
                 /\ T.fromPreviousBalance # None
                 /\ T.fromNextBalance # None
                 /\ T.fromNextBalance =
                        minus(minus(T.fromPreviousBalance, T.amount), T.feesAmount)
            /\ T.to # Null =>
                 /\ T.toPreviousBalance # None
                 /\ T.toNextBalance # None
                 /\ T.toNextBalance = plus(T.toPreviousBalance, T.amount))
    /\ [][\A h \in DOMAIN journal' \ DOMAIN journal :
            LET T == journal'[h] IN
            /\ T.from # Null => /\ T.from \in DOMAIN accounts
                                /\ T.fromPreviousBalance = accounts[T.from].balance
            /\ T.to # Null => /\ T.to \in DOMAIN accounts
                              /\ T.toPreviousBalance = accounts[T.to].balance]_vars

\* C8 witness: one entry was journaled from a sender balance of zero and
\* another from a negative sender balance (the scenario of spec section 8)
C8_Witness ==
    /\ {"0xt1", "0xt2"} \subseteq DOMAIN journal
    /\ journal["0xt1"].fromPreviousBalance = Zero
    /\ journal["0xt1"].fromNextBalance = Num(-102)
    /\ journal["0xt1"].toNextBalance = Num(100)
    /\ journal["0xt1"].totalAmount = Num(102)
    /\ journal["0xt2"].fromPreviousBalance = Num(-102)

\* C9 (as claimed): a reverted transaction is journaled with success = false
\* and its fee, the sender's balance goes down by the fee alone and the
\* receiver's balance stays as it was.
C9_RevertedChargesOnlyFee ==
    /\ []("0xt2" \in DOMAIN journal =>
            ~journal["0xt2"].success /\ journal["0xt2"].feesAmount = Num(3))
    /\ [][/\ (ProcessTxUpdateTo /\ ~txBase.success) =>
               accounts'[txBase.to].balance = accounts[txBase.to].balance
          /\ (ProcessTxUpdateFrom /\ ~txBase.success) =>
               accounts'[txBase.from].balance =
                   minus(accounts[txBase.from].balance, txBase.feesAmount)]_vars

\* C10 (as claimed): when processTx returns for a transaction with a sender
\* and a receiver, the ledger differs from the one before the call (the rows
\* accounts.from / accounts.to were read from) exactly by the receiver's and
\* the sender's arm, whether or not the two are the same address.
C10_BothArmsApplied ==
    [][(ProcessTxUpdateFrom /\ accTo # None) =>
         LET f   == txBase.from
             t   == txBase.to
             new == accounts'
         IN /\ new[t].incomingTxCount = accTo.incomingTxCount + 1
            /\ new[t].totalReceived = plus(accTo.totalReceived, txBase.amount)
            /\ new[f].outgoingTxCount = accFrom.outgoingTxCount + 1
            /\ new[f].totalSent = plus(accFrom.totalSent, txBase.amount)
            /\ new[f].totalFeesPaid = plus(accFrom.totalFeesPaid, txBase.feesAmount)
            /\ new[f].balance = txBase.fromNextBalance
            /\ f # t => /\ new[t].balance = txBase.toNextBalance
                        /\ new[t].totalTxCount = accTo.totalTxCount + 1
                        /\ new[f].totalTxCount = accFrom.totalTxCount + 1
            /\ f = t => new[f].totalTxCount = accFrom.totalTxCount + 2
            /\ \A a \in DOMAIN accounts \ {f, t} : new[a] = accounts[a]]_vars

\* the same for transactions between two different addresses
C10_DistinctAddresses ==
    [][(ProcessTxUpdateFrom /\ accTo # None /\ txBase.from # txBase.to) =>
         LET f   == txBase.from
             t   == txBase.to
             new == accounts'
         IN /\ new[t] = toArm(accTo, txBase)
            /\ new[f] = fromArm(accFrom, txBase)
            /\ new[t].incomingTxCount = accTo.incomingTxCount + 1
            /\ new[f].outgoingTxCount = accFrom.outgoingTxCount + 1
            /\ \A a \in DOMAIN accounts \ {f, t} : new[a] = accounts[a]]_vars

\* C11: in every reachable state, between any two writes and after any
\* crashes and restarts, every account row has
\* totalTxCount = incomingTxCount + outgoingTxCount.
C11_TotalIsIncomingPlusOutgoing ==
    \A a \in DOMAIN accounts :
        accounts[a].totalTxCount =
            accounts[a].incomingTxCount + accounts[a].outgoingTxCount

\* C11 witness: after a crash, a row that has sent and received (and been
\* overwritten by a self-transfer) stands beside a row credited as miner
C11_Witness ==
    /\ crashes >= 1
    /\ {"0xa", "0xb", "0xm"} \subseteq DOMAIN accounts
    /\ accounts["0xa"].outgoingTxCount >= 3
    /\ accounts["0xb"].incomingTxCount >= 2
    /\ accounts["0xb"].outgoingTxCount >= 1
    /\ accounts["0xm"].totalMinedBlocks >= 1

\* position of a journal entry in chain order: its block, then its place in
\* block.transactions
positionInBlock(T) ==
    CHOOSE i \in DOMAIN getBlockWithTransactions(T.blockNumber).transactions :
        toLowerCase(getBlockWithTransactions(T.blockNumber).transactions[i].hash)
            = T.txHash

chainOrder(T) == T.blockNumber * 16 + positionInBlock(T)

\* the journal entries naming address a, and the latest of them
naming(a) == {h \in DOMAIN journal : journal[h].from = a \/ journal[h].to = a}

latestNaming(a) ==
    CHOOSE h \in naming(a) :
        \A g \in naming(a) : chainOrder(journal[g]) <= chainOrder(journal[h])

\* the next-balance the entry computed for a (the sender's update is the
\* later write when a is both sides)
nextBalanceFor(T, a) == IF T.from = a THEN T.fromNextBalance ELSE T.toNextBalance

\* sum of the rewards credited to a for blocks from..to
RECURSIVE creditedRewards(_, _, _)
creditedRewards(a, from, to) ==
    IF to < from THEN Zero
    ELSE plus(creditedRewards(a, from, to - 1),
              IF to \in DOMAIN rewards /\ rewards[to].account = a /\ mined[to] >= 1
              THEN rewards[to].amount ELSE Zero)

\* the balance the journal and the reward table account for
chainedBalance(a) ==
    IF naming(a) = {} THEN creditedRewards(a, 1, Tip)
    ELSE LET T == journal[latestNaming(a)]
         IN plus(nextBalanceFor(T, a), creditedRewards(a, T.blockNumber, Tip))

\* C12 (as claimed): whenever the checkpoint has been written with no ledger
\* write after it (no transaction or reward is mid-application), every
\* account's balance is the next-balance of the latest journal entry naming
\* the address plus the rewards credited to it since.
C12_BalanceIsLatestNextBalance ==
    ~touched => \A a \in DOMAIN accounts : accounts[a].balance = chainedBalance(a)

\* the same statement in histories without a process crash
C12_CrashFreeBalanceIsLatestNextBalance ==
    (~touched /\ crashes = 0) =>
        \A a \in DOMAIN accounts : accounts[a].balance = chainedBalance(a)

\* a step that starts processBlock for a block
startsBlock == InFlight' /\ (~InFlight \/ blockNumber' # blockNumber)

\* C13: once the terminating flag is set no step starts processBlock for
\* another block and the loop returns with nothing in flight, while a block
\* in flight when the flag is set keeps its next step enabled and leaves the
\* loop only through its own checkpoint write (or a fault of its own).
C13_ShutdownAtBlockBoundary ==
    /\ [][isTerminating => ~startsBlock]_vars
    /\ [][(InFlight /\ pc' = "stopped") =>
            (pc = "setLastProcessedBlockNumber" /\ checkpoint' = blockNumber)]_vars
    /\ []((InFlight /\ isTerminating) => ENABLED Step)
    /\ [](pc = "stopped" =>
            (isTerminating /\ currentProcess # "pending"
             /\ (batchFrom + idx - 1 <= Tip => dropped)))

\* C13 witness: the flag was set while a block of a batch was in flight, the
\* block has run through to its checkpoint write, and onModuleDestroy is
\* still waiting for it
C13_Witness ==
    /\ isTerminating
    /\ destroy = "waiting"
    /\ pc = "setLastProcessedBlockNumber"
    /\ blockNumber = 2
    /\ {"0xt3", "0xt4", "0xt5"} \subseteq completed
    /\ mined[2] = 1

\* C14 (as claimed): onModuleDestroy has returned only when pullBlocks has
\* returned (or the process has ended otherwise).
C14_DestroyReturnsAfterPullBlocks == destroy = "returned" => ~Running

\* what the await on _currentProcess does give: onModuleDestroy has returned
\* only when no block is in flight
C14_DestroyReturnsWithNoBlockInFlight == destroy = "returned" => ~InFlight

\* the loop has left a block it could not finish: a transport error or a
\* refused insert inside a block the chain source has
blockFailed == pc = "failed" /\ blockNumber <= Tip

\* C15: when every fetch and the processing of the block in flight complete,
\* a shutdown request leads to STOPPED; in STOPPED no continuation of the
\* service is left to run, and the only step from it (a new process) leaves
\* the store, the checkpoint included, as it is and has no block in flight.
C15_ShutdownLeadsToStopped ==
    /\ isTerminating ~> (pc = "stopped")
    /\ [](pc = "stopped" => ~ENABLED Step)
    /\ [][pc = "stopped" => (UNCHANGED store /\ ~InFlight')]_vars

\* the same with process deaths, transport errors and refused inserts allowed:
\* a shutdown request leads to STOPPED unless the process dies or the block
\* in flight fails
C15_ShutdownLeadsToStoppedOrFault ==
    /\ isTerminating ~> (pc = "stopped" \/ pc = "down" \/ blockFailed)
    /\ [](pc = "stopped" => ~ENABLED Step)
    /\ [][pc = "stopped" => (UNCHANGED store /\ ~InFlight')]_vars

\* C15 witness: after a shutdown request during a block the loop has finished
\* that block, checkpointed it and returned, leaving prefetched blocks
C15_Witness ==
    /\ pc = "stopped"
    /\ shutdowns = 1
    /\ destroy = "returned"
    /\ currentProcess = "resolved"
    /\ checkpoint = 2
    /\ dropped

\* C18: once transaction.wait() of a transaction of block H has thrown an
\* error other than 'transaction failed', the run has ended at that
\* transaction: it is not in the journal, H has no BlockReward row and no
\* miner credit, the checkpoint stands at H - 1, no continuation of the
\* service is left to run, and the store stays as it is until a new process
\* starts.
C18_ErrorAbortsBlock ==
    /\ [](runFault =>
            /\ pc = "failed"
            /\ currentProcess = "rejected"
            /\ block.number = blockNumber
            /\ toLowerCase(transaction.hash) \notin DOMAIN journal
            /\ blockNumber \notin DOMAIN rewards
            /\ mined[blockNumber] = 0
            /\ checkpoint = blockNumber - 1
            /\ ~ENABLED Step)
    /\ [][runFault => (UNCHANGED store /\ pc' = "onModuleInit")]_vars

\* C18 witness: the second transaction of block 1 threw after the first was
\* applied in full
C18_Witness ==
    /\ runFault
    /\ pc = "failed"
    /\ blockNumber = 1
    /\ txIdx = 2
    /\ "0xt1" \in completed
    /\ DOMAIN journal = {"0xt1"}

\* the account rows other than that of address a are the same before and
\* after the step, and none is created
onlyRowTouched(a) ==
    /\ DOMAIN accounts' \subseteq DOMAIN accounts \cup {a}
    /\ \A x \in DOMAIN accounts : x # a => (x \in DOMAIN accounts' /\ accounts'[x] = accounts[x])

\* processTx is between its checkTxExists and its return
InProcessTx == pc \in {"checkTxExists", "getFrom", "getTo", "wait", "saveTx",
                       "updateTo", "updateFrom"}

\* C19: a transaction without receiver is journaled with toPreviousBalance
\* and toNextBalance null, every step of its processTx touches no account row
\* but the sender's, and the sender's update takes value + fees off the
\* balance and adds 1 to outgoingTxCount and totalTxCount; a transaction
\* without sender is journaled with fromPreviousBalance and fromNextBalance
\* null, touches only the receiver's row, and the receiver's update adds the
\* value to the balance and 1 to incomingTxCount and totalTxCount.
C19_AbsentSideLeftAlone ==
    /\ [](\A h \in DOMAIN journal :
            LET T == journal[h] IN
            /\ T.to = Null => (T.toPreviousBalance = None /\ T.toNextBalance = None)
            /\ T.from = Null => (T.fromPreviousBalance = None /\ T.fromNextBalance = None))
    /\ [][(InProcessTx /\ transaction.to = Null /\ transaction.from # Null) =>
            /\ onlyRowTouched(toLowerCase(transaction.from))
            /\ pc # "updateTo"
            /\ ProcessTxUpdateFrom =>
                 LET f == toLowerCase(transaction.from) IN
                 /\ accounts'[f].balance =
                        minus(minus(accounts[f].balance, txBase.amount), txBase.feesAmount)
                 /\ accounts'[f].outgoingTxCount = accounts[f].outgoingTxCount + 1
                 /\ accounts'[f].totalTxCount = accounts[f].totalTxCount + 1
                 /\ accounts'[f].incomingTxCount = accounts[f].incomingTxCount]_vars
    /\ [][(InProcessTx /\ transaction.from = Null /\ transaction.to # Null) =>
            /\ onlyRowTouched(toLowerCase(transaction.to))
            /\ pc # "updateFrom"
            /\ ProcessTxUpdateTo =>
                 LET t == toLowerCase(transaction.to) IN
                 /\ accounts'[t].balance = plus(accounts[t].balance, txBase.amount)
                 /\ accounts'[t].incomingTxCount = accounts[t].incomingTxCount + 1
                 /\ accounts'[t].totalTxCount = accounts[t].totalTxCount + 1
                 /\ accounts'[t].outgoingTxCount = accounts[t].outgoingTxCount]_vars

\* C19 witness: the transaction without receiver and the one without sender
\* have both been processed to their return, one arm each
C19_Witness ==
    /\ {"0xt4", "0xt5"} \subseteq completed
    /\ journal["0xt4"].to = Null
    /\ journal["0xt5"].from = Null
    /\ applied["0xt4"] = [to |-> 0, from |-> 1]
    /\ applied["0xt5"] = [to |-> 1, from |-> 0]

\* C20 (as claimed): once onModuleDestroy has returned, no step of that
\* process writes to any of the four tables.
C20_NoWriteAfterDestroyReturned ==
    [][destroy = "returned" => UNCHANGED store]_vars

\* what does hold: after onModuleDestroy has returned the ledger tables are
\* not written and an existing checkpoint row is not changed; only the
\* missing checkpoint row can still be created
C20_NoLedgerWriteAfterDestroyReturned ==
    [][destroy = "returned" =>
         /\ UNCHANGED <<accounts, journal, rewards>>
         /\ lastProcessed # None => UNCHANGED lastProcessed]_vars

\* C16: whatever order the ten fetches of a batch complete in, each result
\* sits at the position of its height, no block is started before all ten
\* have completed, the batch holds the heights in ascending consecutive order, the block in flight is always the one at the stored
\* checkpoint + 1, processBlock for the next block starts only in the step
\* in which the checkpoint write for the previous one completes, and the one
\* promise _currentProcess is pending exactly while a block is in flight.
C16_BlocksInAscendingOrder ==
    /\ [](\A k \in DOMAIN blocks : blocks[k] \in {0, batchFrom + k - 1})
    /\ [](InFlight =>
            /\ \A k \in 1..batchSize : blocks[k] = batchFrom + k - 1
            /\ block.number = blockNumber
            /\ blockNumber = checkpoint + 1)
    /\ [](InFlight <=> currentProcess = "pending")
    /\ [][startsBlock =>
            /\ block'.number = checkpoint' + 1
            /\ InFlight => (pc = "setLastProcessedBlockNumber"
                            /\ checkpoint' = blockNumber
                            /\ block'.number = block.number + 1)]_vars

\* C16 witness: the first batch has been processed in order, and of the next
\* batch the fetches of the last and the third block have completed while
\* those of the first two are still outstanding
C16_Witness ==
    /\ pc = "fetch"
    /\ checkpoint = 10
    /\ batchFrom = 11
    /\ blocks[1] = 0
    /\ blocks[2] = 0
    /\ blocks[3] = 13
    /\ blocks[10] = 20

\* C17: calcBlockReward returns base * 10^18 + feesAmount - burnt, where base
\* is 5 up to height 4369999, 3 from 4370000 to 7279999 and 2 from 7280000,
\* each height lying in exactly one of the three eras, and burnt is gasUsed *
\* baseFeePerGas when the block has a base fee (a zero one included) and 0
\* when it has none; the result depends on nothing but these arguments.
C17_CalcBlockReward ==
    calcResult # None =>
        LET h     == calcArgs.block.number
            first  == h <= 4369999
            second == h >= 4370000 /\ h <= 7279999
            third  == h >= 7280000
            base   == IF first THEN 5 ELSE IF second THEN 3 ELSE 2
            burned == IF calcArgs.block.baseFeePerGas = None THEN 0
                      ELSE calcArgs.block.gasUsed.hex * calcArgs.block.baseFeePerGas.hex
        IN /\ (first /\ ~second /\ ~third) \/ (~first /\ second /\ ~third)
                \/ (~first /\ ~second /\ third)
           /\ calcResult = [e18 |-> base, e0 |-> calcArgs.feesAmount.e0 - burned]

\* C17 witness: the scenario of tier 3, fees 10, burnt 4, at the first height
\* of the second era
C17_Witness ==
    /\ calcResult = [e18 |-> 3, e0 |-> 6]
    /\ calcArgs.block.number = 4370000
    /\ calcArgs.feesAmount = Num(10)
    /\ calcArgs.block.gasUsed = EthersBN(2)
    /\ calcArgs.block.baseFeePerGas = EthersBN(2)

\* the last height of the first era is still paid 5
C17_ThresholdWitness ==
    /\ calcResult # None
    /\ calcArgs.block.number = 4369999
    /\ calcResult.e18 = 5
====
